---- MODULE Spec2Model ----
(***************************************************************************)
(* Label geometry of the FormDex pipeline: the mapping of a PDF field      *)
(* rectangle to a YOLO label line (shared/utils.py), the label writer of   *)
(* the collect skill with its class registry (collect_form.py) and the     *)
(* augment skill (run.py): its two label-transforming augmentations and    *)
(* the main loop that writes the augmented samples.                        *)
(*                                                                         *)
(* Numbers.  Python floats are modelled by exact rationals <<n, d>> with   *)
(* d > 0 in lowest terms.  A label token is modelled as the text it is:    *)
(* <<"dec", m, e>> is the decimal numeral with digits m and e digits after *)
(* the point (value m / 10^e), <<"txt", k, 0>> is a word that float()      *)
(* rejects.  f"{x:.6f}" rounds to the nearest 6-decimal numeral.  Where the *)
(* exact value lies halfway between two numerals, or exactly on a          *)
(* threshold it is compared with, the float computed by the code lies a    *)
(* rounding error above or below it, and that error decides; the model     *)
(* leaves the direction open (tieUp) and fixed within a run.               *)
(***************************************************************************)
EXTENDS Integers, Sequences, FiniteSets, TLC

VARIABLES
    tieUp,      \* whether a float on an exact boundary lies above it (else below)
    mapArgs,    \* arguments of the pdf_rect_to_yolo call under study
    mapCalls,   \* how many times it has been called with mapArgs (0..2)
    mapRes,     \* result of the latest call
    mapPrev,    \* result of the call before it (same arguments)
    phase,      \* "start" | "labeled" | "crashed"
    img,        \* <<width, height>> of the rendered frame
    fields,     \* the page's fields handed to render_and_label
    labelLines, \* the lines of the frame's current label file
    origin,     \* "rendered": written by render_and_label only; "edited"
    op,         \* last operation on the label file
    inLines,    \* the label_lines argument of the last augmentation
    par,        \* the values sampled by the last resize_scan_fax
    keptIdx,    \* for each emitted line, the index of its input line
    raised,     \* the last augmentation raised (ValueError)
    steps,      \* augmentations applied so far
    op0,        \* the operation before the last one
    inLines0,   \* its label_lines argument
    padStage,   \* "idle" | "chosen" | "padded" | "mapped"
    padField,   \* the field whose rectangle render_and_label prepares
    padOut,     \* the rectangle it hands to pdf_rect_to_yolo
    padBox,     \* cx, cy, w, h as pdf_rect_to_yolo hands them to clamp
    padLine,    \* the label line pdf_rect_to_yolo returns for the field
    scanArgs,   \* image size, label lines and sampled values of a resize_scan_fax call
    scanCalls,  \* how many times it has run with scanArgs (0..2)
    scanRes,    \* what the latest run produced
    scanPrev,   \* what the run before it produced (same arguments, same values)
    regStage,   \* where main of collect_form.py stands: "idle" | "config" |
                \* "extract" | "done"
    regConfig,  \* classes_from_config
    regWidgets, \* the widgets of the template's page
    regSkip,    \* skip_labels
    regPos,     \* position of the running loop in its list
    class_to_id,\* the dict from class name to id
    regOrder,   \* the names in the order they entered class_to_id
    page_fields,\* the fields extract_field_metadata collected for the page
    variation,  \* variations rendered so far
    regLabels,  \* the lines of the label file written for the latest variation
    classesTxt, \* the lines of classes.txt in the output directory
    num_variations, \* num_variations of config.json
    regRun,     \* 1 for the first collection run into the output directory, then 2
    prevClasses,\* the lines of classes.txt when the current run started
    frames,     \* the frames directory: per .jpg, sorted by name, whether it has a
                \* sibling .txt and the lines of that file
    mainPc,     \* where main of run.py stands: "idle" | "start" | "loop" |
                \* "returned" | "crashed"
    labeledPos, \* position of `for frame_path in labeled`
    augStep,    \* the augmentation the loop body is about to apply (1..6)
    written,    \* the image/label pairs written to the augmented directory
    count,      \* count
    returnCode  \* what main returned (-1: nothing yet)

mapVars == <<mapArgs, mapCalls, mapRes, mapPrev>>
augVars == <<phase, img, fields, labelLines, origin, op, inLines, par,
             keptIdx, raised, steps, op0, inLines0>>
padVars == <<padStage, padField, padOut, padBox, padLine>>
scanVars == <<scanArgs, scanCalls, scanRes, scanPrev>>
runVars == <<num_variations, regRun, prevClasses>>
regVars == <<regStage, regConfig, regWidgets, regSkip, regPos, class_to_id, regOrder,
             page_fields, variation, regLabels, classesTxt, runVars>>
mainVars == <<frames, mainPc, labeledPos, augStep, written, count, returnCode>>
sideVars == <<padVars, scanVars, regVars, mainVars>>
vars == <<tieUp, mapArgs, mapCalls, mapRes, mapPrev, phase, img, fields, labelLines,
          origin, op, inLines, par, keptIdx, raised, steps, op0, inLines0,
          padStage, padField, padOut, padBox, padLine, scanArgs, scanCalls, scanRes, scanPrev,
          regStage, regConfig, regWidgets, regSkip, regPos, class_to_id, regOrder,
          page_fields, variation, regLabels, classesTxt, num_variations, regRun,
          prevClasses, frames, mainPc, labeledPos, augStep, written, count, returnCode>>

----------------------------------------------------------------------------
(* Bounds of the model *)

MaxFields == 2
MaxSteps == 2
MaxLines == 2
MaxVariations == 2
MaxFrames == 3

----------------------------------------------------------------------------
(* Exact rational arithmetic standing for float arithmetic *)

Abs(x) == IF x < 0 THEN -x ELSE x

RECURSIVE Gcd(_, _)
Gcd(a, b) == IF b = 0 THEN a ELSE Gcd(b, a % b)

RECURSIVE Pow10(_)
Pow10(e) == IF e = 0 THEN 1 ELSE 10 * Pow10(e - 1)

\* n / d in lowest terms with a positive denominator (d # 0)
Rat(n, d) ==
    LET g == Gcd(Abs(n), Abs(d))
        s == IF d < 0 THEN -1 ELSE 1
    IN  <<(s * n) \div g, (s * d) \div g>>

RInt(k) == <<k, 1>>

RAdd(a, b) ==
    LET g == Gcd(a[2], b[2])
    IN  Rat(a[1] * (b[2] \div g) + b[1] * (a[2] \div g), (a[2] \div g) * b[2])

RNeg(a) == <<-a[1], a[2]>>

RSub(a, b) == RAdd(a, RNeg(b))

RMul(a, b) ==
    LET g1 == Gcd(Abs(a[1]), b[2])
        g2 == Gcd(Abs(b[1]), a[2])
    IN  IF a[1] = 0 \/ b[1] = 0 THEN <<0, 1>>
        ELSE <<(a[1] \div g1) * (b[1] \div g2), (a[2] \div g2) * (b[2] \div g1)>>

\* a / b for b # 0
RDiv(a, b) == RMul(a, Rat(b[2], b[1]))

RLt(a, b) ==
    LET g == Gcd(a[2], b[2])
    IN  a[1] * (b[2] \div g) < b[1] * (a[2] \div g)

RLe(a, b) == ~RLt(b, a)

RAbs(a) == <<Abs(a[1]), a[2]>>

\* Python's max(a, b) and min(a, b) on floats
RMax(a, b) == IF RLt(a, b) THEN b ELSE a
RMin(a, b) == IF RLt(b, a) THEN b ELSE a

\* Python's int(x): truncation toward zero
RTrunc(a) == IF a[1] >= 0 THEN a[1] \div a[2] ELSE -((-a[1]) \div a[2])

\* nearest integer; a tie goes up or down as `up` says
RoundNearest(a, up) ==
    LET q == a[1] \div a[2]
        r == a[1] % a[2]
    IN  IF 2 * r < a[2] THEN q
        ELSE IF 2 * r > a[2] THEN q + 1
        ELSE IF up THEN q + 1 ELSE q

----------------------------------------------------------------------------
(* Label tokens and lines *)

\* the numeral with digits m and e decimals
Dec(m, e) == <<"dec", m, e>>

\* a word that is no numeral
Txt(k) == <<"txt", k, 0>>

\* str(class_id) of an integer class id
IntTok(k) == <<"dec", k, 0>>

\* float(token) raises ValueError
Unparseable(tok) == tok[1] # "dec"

\* float(token) of a numeral
ParseFloat(tok) == Rat(tok[2], Pow10(tok[3]))

\* f"{x:.3f}"
Fmt3(x) == Dec(RoundNearest(RMul(x, RInt(1000)), tieUp), 3)

\* f"{x:.6f}"
Fmt6(x) == Dec(RoundNearest(RMul(x, RInt(1000000)), tieUp), 6)

----------------------------------------------------------------------------
(* shared/utils.py *)

\* clamp without its upper bound
clamp_noUpper(value, low, high) == RMax(low, value)

clamp(value, low, high) == RMax(low, RMin(value, high))

\* The result of a call: the returned line, or the exception raised.
Returned(line) == [err |-> "none", line |-> line]
Raised(e) == [err |-> e, line |-> <<>>]

\* cx, cy, w, h with one scale factor, img_width / page_width, on both axes
YoloBoxOneScale(field_x0, field_y0, field_x1, field_y1, page_width, page_height, img_width, img_height) ==
    LET scale_x == Rat(img_width, page_width)
        img_x0 == RMul(field_x0, scale_x)
        img_y0 == RMul(field_y0, scale_x)
        img_x1 == RMul(field_x1, scale_x)
        img_y1 == RMul(field_y1, scale_x)
    IN  << RDiv(RDiv(RAdd(img_x0, img_x1), RInt(2)), RInt(img_width)),
           RDiv(RDiv(RAdd(img_y0, img_y1), RInt(2)), RInt(img_height)),
           RDiv(RAbs(RSub(img_x1, img_x0)), RInt(img_width)),
           RDiv(RAbs(RSub(img_y1, img_y0)), RInt(img_height)) >>

\* the values pdf_rect_to_yolo hands to clamp: cx, cy, w, h of the rectangle
\* in image pixels, divided by the image size
YoloBox(field_x0, field_y0, field_x1, field_y1, page_width, page_height, img_width, img_height) ==
    LET scale_x == Rat(img_width, page_width)
        scale_y == Rat(img_height, page_height)
        img_x0 == RMul(field_x0, scale_x)
        img_y0 == RMul(field_y0, scale_y)
        img_x1 == RMul(field_x1, scale_x)
        img_y1 == RMul(field_y1, scale_y)
    IN  << RDiv(RDiv(RAdd(img_x0, img_x1), RInt(2)), RInt(img_width)),
           RDiv(RDiv(RAdd(img_y0, img_y1), RInt(2)), RInt(img_height)),
           RDiv(RAbs(RSub(img_x1, img_x0)), RInt(img_width)),
           RDiv(RAbs(RSub(img_y1, img_y0)), RInt(img_height)) >>

pdf_rect_to_yolo(field_x0, field_y0, field_x1, field_y1, page_width, page_height, img_width, img_height, class_id) ==
    IF page_width = 0 \/ page_height = 0 \/ img_width = 0 \/ img_height = 0
    THEN Raised("ZeroDivisionError")
    ELSE
    LET box == YoloBox(field_x0, field_y0, field_x1, field_y1, page_width, page_height,
                       img_width, img_height)
        cx == clamp(box[1], RInt(0), RInt(1))
        cy == clamp(box[2], RInt(0), RInt(1))
        w == clamp(box[3], RInt(0), RInt(1))
        h == clamp(box[4], RInt(0), RInt(1))
    IN  Returned(<<IntTok(class_id), Fmt6(cx), Fmt6(cy), Fmt6(w), Fmt6(h)>>)

----------------------------------------------------------------------------
(* Direct calls of pdf_rect_to_yolo *)

\* <<x0, x1>> and <<y0, y1>> of the field rectangles tried, in points
RectXs == {<<100, 200>>, <<300, 300>>, <<600, 700>>, <<-50, 10>>, <<200, 100>>}
RectYs == {<<700, 720>>, <<400, 400>>, <<780, 800>>}
PageDims == {<<612, 792>>, <<0, 792>>, <<612, 0>>, <<-612, 792>>, <<612, -792>>}
ImgDims == {<<1700, 2200>>, <<200, 250>>, <<0, 2200>>, <<1700, 0>>, <<-1700, 2200>>}

MapArgSet == [rx : RectXs, ry : RectYs, page : PageDims, image : ImgDims]

NoResult == Raised("not called")

\* the call with the x and the y coordinates of the rectangle exchanged
CallMapperYX(a) ==
    pdf_rect_to_yolo(RInt(a.ry[1]), RInt(a.rx[1]), RInt(a.ry[2]), RInt(a.rx[2]),
                     a.page[1], a.page[2], a.image[1], a.image[2], 0)

CallMapper(a) ==
    pdf_rect_to_yolo(RInt(a.rx[1]), RInt(a.ry[1]), RInt(a.rx[2]), RInt(a.ry[2]),
                     a.page[1], a.page[2], a.image[1], a.image[2], 0)

AugIdle ==
    /\ phase = "start"
    /\ img = <<200, 250>>
    /\ fields = <<>>
    /\ labelLines = <<>>
    /\ origin = "rendered"
    /\ op = "none"
    /\ inLines = <<>>
    /\ par = <<>>
    /\ keptIdx = <<>>
    /\ raised = FALSE
    /\ steps = 0
    /\ op0 = "none"
    /\ inLines0 = <<>>

PadIdle ==
    /\ padStage = "idle"
    /\ padField = [class_name |-> "text", class_id |-> 0, rect |-> <<0, 0, 0, 0>>]
    /\ padOut = <<>>
    /\ padBox = <<>>
    /\ padLine = <<>>

NoScan == [image |-> <<>>, labels |-> <<>>]

ScanIdle ==
    /\ scanArgs = [size |-> <<200, 250>>, lines |-> <<>>, p |-> <<>>]
    /\ scanCalls = 0
    /\ scanRes = NoScan
    /\ scanPrev = NoScan

\* class_to_id: dict[str, int] = {}
EmptyDict == [n \in {} |-> 0]

RegIdle ==
    /\ regStage = "idle"
    /\ regConfig = <<>>
    /\ regWidgets = <<>>
    /\ regSkip = FALSE
    /\ regPos = 1
    /\ class_to_id = EmptyDict
    /\ regOrder = <<>>
    /\ page_fields = <<>>
    /\ variation = 0
    /\ regLabels = <<>>
    /\ classesTxt = <<>>
    /\ num_variations = 0
    /\ regRun = 1
    /\ prevClasses = <<>>

MainIdle ==
    /\ frames = <<>>
    /\ mainPc = "idle"
    /\ labeledPos = 1
    /\ augStep = 1
    /\ written = <<>>
    /\ count = 0
    /\ returnCode = -1

SideIdle == PadIdle /\ ScanIdle /\ RegIdle /\ MainIdle

MapIdle ==
    /\ mapArgs = [rx |-> <<100, 200>>, ry |-> <<700, 720>>,
                  page |-> <<612, 792>>, image |-> <<1700, 2200>>]
    /\ mapCalls = 0
    /\ mapRes = NoResult
    /\ mapPrev = NoResult

MapInit ==
    /\ tieUp \in BOOLEAN
    /\ mapArgs \in MapArgSet
    /\ mapCalls = 0
    /\ mapRes = NoResult
    /\ mapPrev = NoResult
    /\ AugIdle
    /\ SideIdle

\* one call of pdf_rect_to_yolo with the arguments under study
MapCall ==
    /\ mapCalls < 2
    /\ mapCalls' = mapCalls + 1
    /\ mapPrev' = mapRes
    /\ mapRes' = CallMapper(mapArgs)
    /\ UNCHANGED <<tieUp, mapArgs, augVars, sideVars>>

\* the caller moves on to other arguments
MapNewArgs ==
    /\ mapCalls > 0
    /\ \E a \in MapArgSet :
        /\ a # mapArgs
        /\ mapArgs' = a
    /\ mapCalls' = 0
    /\ mapRes' = NoResult
    /\ mapPrev' = NoResult
    /\ UNCHANGED <<tieUp, augVars, sideVars>>

MapNext == MapCall \/ MapNewArgs

SpecMap == MapInit /\ [][MapNext]_vars

----------------------------------------------------------------------------
(* collect_form.py: the label writer *)

\* US Letter in points
PageW == 612
PageH == 792

\* pix.width, pix.height of a US Letter page at RENDER_DPI = 200
RenderSize == <<1700, 2200>>

CHECKBOX_PAD_FACTOR == 1

\* the padding with half the box's size on each side
CheckboxPadHalf(x0, y0, x1, y1, page_w, page_h) ==
    LET pad_x == RDiv(RSub(x1, x0), RInt(2))
        pad_y == RDiv(RSub(y1, y0), RInt(2))
    IN  <<RMax(RInt(0), RSub(x0, pad_x)),
          RMax(RInt(0), RSub(y0, pad_y)),
          RMin(RInt(page_w), RAdd(x1, pad_x)),
          RMin(RInt(page_h), RAdd(y1, pad_y))>>

\* the padding without max(0, .) and min(page size, .)
CheckboxPadUnbounded(x0, y0, x1, y1, page_w, page_h) ==
    LET pad_x == RMul(RSub(x1, x0), RInt(CHECKBOX_PAD_FACTOR))
        pad_y == RMul(RSub(y1, y0), RInt(CHECKBOX_PAD_FACTOR))
    IN  <<RSub(x0, pad_x), RSub(y0, pad_y), RAdd(x1, pad_x), RAdd(y1, pad_y)>>

\* The padding of a checkbox rectangle inside render_and_label; the page's
\* origin is (0, 0) and its far corner (page_w, page_h).
CheckboxPad(x0, y0, x1, y1, page_w, page_h) ==
    LET w_pt == RSub(x1, x0)
        h_pt == RSub(y1, y0)
        pad_x == RMul(w_pt, RInt(CHECKBOX_PAD_FACTOR))
        pad_y == RMul(h_pt, RInt(CHECKBOX_PAD_FACTOR))
    IN  <<RMax(RInt(0), RSub(x0, pad_x)),
          RMax(RInt(0), RSub(y0, pad_y)),
          RMin(RInt(page_w), RAdd(x1, pad_x)),
          RMin(RInt(page_h), RAdd(y1, pad_y))>>

\* the padding applied to every class
LabelRectPadAll(f, page_w, page_h) ==
    CheckboxPad(RInt(f.rect[1]), RInt(f.rect[2]), RInt(f.rect[3]), RInt(f.rect[4]),
                page_w, page_h)

\* The rectangle render_and_label hands to pdf_rect_to_yolo for field f
LabelRect(f, page_w, page_h) ==
    LET r == <<RInt(f.rect[1]), RInt(f.rect[2]), RInt(f.rect[3]), RInt(f.rect[4])>>
    IN  IF f.class_name = "checkbox"
        THEN CheckboxPad(r[1], r[2], r[3], r[4], page_w, page_h)
        ELSE r

\* The `for f in fields` loop of render_and_label from field i on, `lines`
\* being the lines appended so far; the result is the label file written.
RECURSIVE RenderLoop(_, _, _, _, _, _, _)
RenderLoop(fs, i, lines, page_w, page_h, img_w, img_h) ==
    IF i > Len(fs) THEN lines
    ELSE LET r == LabelRect(fs[i], page_w, page_h)
             line == pdf_rect_to_yolo(r[1], r[2], r[3], r[4], page_w, page_h,
                                      img_w, img_h, fs[i].class_id).line
         IN  RenderLoop(fs, i + 1, Append(lines, line), page_w, page_h, img_w, img_h)

\* The label lines render_and_label writes for one page (skip_labels false)
render_and_label(fs, page_w, page_h, img_w, img_h) ==
    RenderLoop(fs, 1, <<>>, page_w, page_h, img_w, img_h)

----------------------------------------------------------------------------
(* The rectangle step of render_and_label, one field at a time *)

\* <<x0, x1>> and <<y0, y1>> of the widget rectangles tried, in points: small
\* boxes in a corner, boxes that touch, straddle or lie beyond a page edge,
\* boxes with room on every side, a zero-width and a reversed box
PadXs == {<<5, 15>>, <<0, 10>>, <<602, 612>>, <<600, 620>>, <<700, 710>>, <<-30, -20>>,
          <<200, 300>>, <<300, 300>>, <<300, 200>>, <<0, 612>>}
PadYs == {<<5, 15>>, <<780, 800>>, <<400, 420>>, <<900, 910>>, <<0, 792>>}
PadClasses == {"checkbox", "text", "date"}

PadFieldSet ==
    {[class_name |-> c, class_id |-> 0, rect |-> <<x[1], y[1], x[2], y[2]>>] :
        c \in PadClasses, x \in PadXs, y \in PadYs}

PadInit ==
    /\ tieUp \in BOOLEAN
    /\ padStage = "chosen"
    /\ padField \in PadFieldSet
    /\ padOut = <<>>
    /\ padBox = <<>>
    /\ padLine = <<>>
    /\ MapIdle
    /\ AugIdle
    /\ ScanIdle
    /\ RegIdle
    /\ MainIdle

\* lines 301-316 for the field at hand
PadStep ==
    /\ padStage = "chosen"
    /\ padOut' = LabelRect(padField, PageW, PageH)
    /\ padStage' = "padded"
    /\ UNCHANGED <<padField, padBox, padLine, tieUp, mapVars, augVars, scanVars, regVars, mainVars>>

\* lines 318-329: the call of pdf_rect_to_yolo for the field at hand
PadMap ==
    /\ padStage = "padded"
    /\ padBox' = YoloBox(padOut[1], padOut[2], padOut[3], padOut[4], PageW, PageH,
                         RenderSize[1], RenderSize[2])
    /\ padLine' = pdf_rect_to_yolo(padOut[1], padOut[2], padOut[3], padOut[4], PageW,
                                   PageH, RenderSize[1], RenderSize[2],
                                   padField.class_id).line
    /\ padStage' = "mapped"
    /\ UNCHANGED <<padField, padOut, tieUp, mapVars, augVars, scanVars, regVars, mainVars>>

\* the loop moves on to the next field
PadNextField ==
    /\ padStage = "mapped"
    /\ \E f \in PadFieldSet :
        /\ f # padField
        /\ padField' = f
    /\ padStage' = "chosen"
    /\ padOut' = <<>>
    /\ padBox' = <<>>
    /\ padLine' = <<>>
    /\ UNCHANGED <<tieUp, mapVars, augVars, scanVars, regVars, mainVars>>

PadNext == PadStep \/ PadMap \/ PadNextField

SpecPad == PadInit /\ [][PadNext]_vars

----------------------------------------------------------------------------
(* augment/scripts/run.py: the label-transforming augmentations *)

\* main: the label file's text split into lines, blank lines removed
ReadLabelLines(file) == SelectSeq(file, LAMBDA l : Len(l) > 0)

\* the length test as `len(parts) < 5`
SkipLineShort(parts) == Len(parts) < 5

\* `if len(parts) != 5: continue`
SkipLine(parts) == Len(parts) # 5

\* float(parts[1]) .. float(parts[4]) raises on a line that is not skipped
LineRaises(parts) ==
    /\ ~SkipLine(parts)
    /\ \E k \in 2..5 : Unparseable(parts[k])

\* What a label transform hands back: the exception, or new_lines together
\* with the input position of each line of it.
AugRaised == [raised |-> TRUE, lines |-> <<>>, kept |-> <<>>]
AugReturned(new_lines, kept) == [raised |-> FALSE, lines |-> new_lines, kept |-> kept]

\* the centre left where it was
FlipCxKept(cx) == cx

\* new_cx = 1.0 - cx
FlipCx(cx) == RSub(RInt(1), cx)

\* f"{x:.5f}"
FlipFmt5(x) == Dec(RoundNearest(RMul(x, RInt(100000)), tieUp), 5)

\* the format of the f-string of flip_horizontal
FlipFmt(x) == Fmt6(x)

FlipLine(parts) ==
    <<parts[1], FlipFmt(FlipCx(ParseFloat(parts[2]))), FlipFmt(ParseFloat(parts[3])),
      FlipFmt(ParseFloat(parts[4])), FlipFmt(ParseFloat(parts[5]))>>

\* the loop with a cull of zero-size boxes
RECURSIVE FlipLoopCull(_, _, _, _)
FlipLoopCull(label_lines, i, new_lines, kept) ==
    IF i > Len(label_lines) THEN AugReturned(new_lines, kept)
    ELSE IF SkipLine(label_lines[i]) THEN FlipLoopCull(label_lines, i + 1, new_lines, kept)
    ELSE IF LineRaises(label_lines[i]) THEN AugRaised
    ELSE IF ParseFloat(label_lines[i][4])[1] = 0 \/ ParseFloat(label_lines[i][5])[1] = 0
    THEN FlipLoopCull(label_lines, i + 1, new_lines, kept)
    ELSE FlipLoopCull(label_lines, i + 1, Append(new_lines, FlipLine(label_lines[i])),
                      Append(kept, i))

\* The `for line in label_lines` loop of flip_horizontal from line i on
RECURSIVE FlipLoop(_, _, _, _)
FlipLoop(label_lines, i, new_lines, kept) ==
    IF i > Len(label_lines) THEN AugReturned(new_lines, kept)
    ELSE IF SkipLine(label_lines[i]) THEN FlipLoop(label_lines, i + 1, new_lines, kept)
    ELSE IF LineRaises(label_lines[i]) THEN AugRaised
    ELSE FlipLoop(label_lines, i + 1, Append(new_lines, FlipLine(label_lines[i])),
                  Append(kept, i))

\* The label half of flip_horizontal
flip_horizontal(label_lines) == FlipLoop(label_lines, 1, <<>>, <<>>)

MIN_SIZE == 64

\* the placement with the new size rounded to the nearest integer
ScanPlacementRound(w, h, p) ==
    LET rw == RoundNearest(RMul(RMul(RInt(w), p.scale), p.jx), tieUp)
        rh == RoundNearest(RMul(RMul(RInt(h), p.scale), p.jy), tieUp)
        new_w == IF rw > MIN_SIZE THEN rw ELSE MIN_SIZE
        new_h == IF rh > MIN_SIZE THEN rh ELSE MIN_SIZE
    IN  [new_w |-> new_w, new_h |-> new_h,
         paste_x |-> (w - new_w) \div 2, paste_y |-> (h - new_h) \div 2]

\* new_w, new_h, paste_x, paste_y of resize_scan_fax for the sampled p
ScanPlacement(w, h, p) ==
    LET new_w == IF RTrunc(RMul(RMul(RInt(w), p.scale), p.jx)) > MIN_SIZE
                 THEN RTrunc(RMul(RMul(RInt(w), p.scale), p.jx)) ELSE MIN_SIZE
        new_h == IF RTrunc(RMul(RMul(RInt(h), p.scale), p.jy)) > MIN_SIZE
                 THEN RTrunc(RMul(RMul(RInt(h), p.scale), p.jy)) ELSE MIN_SIZE
    IN  [new_w |-> new_w, new_h |-> new_h,
         paste_x |-> (w - new_w) \div 2, paste_y |-> (h - new_h) \div 2]

Max(a, b) == IF a > b THEN a ELSE b
Min(a, b) == IF a < b THEN a ELSE b

\* the crop taken as the whole resized image
ScanCropWhole(w, h, pl) ==
    [src |-> <<0, 0, pl.new_w, pl.new_h>>,
     dst |-> <<Max(0, pl.paste_x), Max(0, pl.paste_y)>>]

\* "Crop region from resized image that fits on canvas": the box handed to
\* resized.crop and the position handed to canvas.paste
ScanCrop(w, h, pl) ==
    [src |-> <<Max(0, -pl.paste_x), Max(0, -pl.paste_y),
               Min(pl.new_w, w - pl.paste_x), Min(pl.new_h, h - pl.paste_y)>>,
     dst |-> <<Max(0, pl.paste_x), Max(0, pl.paste_y)>>]

\* The image half of resize_scan_fax: the canvas, the resized image's size
\* and offset, and the region of it pasted on the canvas
ScanImage(w, h, p) ==
    LET pl == ScanPlacement(w, h, p)
    IN  [canvas |-> <<w, h>>, placed |-> pl, crop |-> ScanCrop(w, h, pl)]

\* normalized -> pixel -> scaled and shifted -> normalized, on one axis
ScanCentre(c, size, s, j, paste) ==
    RDiv(RAdd(RMul(RMul(RMul(c, RInt(size)), s), j), RInt(paste)), RInt(size))

ScanExtent(b, size, s, j) ==
    RDiv(RMul(RMul(RMul(b, RInt(size)), s), j), RInt(size))

\* new_cx, new_cy, new_bw, new_bh before the clamp
ScanRaw(parts, w, h, p) ==
    LET pl == ScanPlacement(w, h, p)
    IN  <<ScanCentre(ParseFloat(parts[2]), w, p.scale, p.jx, pl.paste_x),
          ScanCentre(ParseFloat(parts[3]), h, p.scale, p.jy, pl.paste_y),
          ScanExtent(ParseFloat(parts[4]), w, p.scale, p.jx),
          ScanExtent(ParseFloat(parts[5]), h, p.scale, p.jy)>>

\* the clamp without its upper bound
ScanClampNoUpper(v) == RMax(Rat(1, 1000), v)

\* the clamp as max(0.0, min(1.0, v))
ScanClampUnit(v) == RMax(RInt(0), RMin(RInt(1), v))

\* max(0.001, min(0.999, v))
ScanClamp(v) == RMax(Rat(1, 1000), RMin(Rat(999, 1000), v))

\* `a > b` and `a < b` on floats whose exact values are a and b: where the
\* two are equal the rounding error of the float standing for a decides
FloatGt(a, b) == RLt(b, a) \/ (a = b /\ tieUp)
FloatLt(a, b) == RLt(a, b) \/ (a = b /\ ~tieUp)

\* "Skip boxes that are mostly off-canvas", on the clamped values
ScanCulled(new_cx, new_cy, new_bw, new_bh) ==
    \/ FloatGt(RSub(new_cx, RDiv(new_bw, RInt(2))), Rat(98, 100))
    \/ FloatLt(RAdd(new_cx, RDiv(new_bw, RInt(2))), Rat(2, 100))
    \/ FloatGt(RSub(new_cy, RDiv(new_bh, RInt(2))), Rat(98, 100))
    \/ FloatLt(RAdd(new_cy, RDiv(new_bh, RInt(2))), Rat(2, 100))

ScanClamped(parts, w, h, p) ==
    LET raw == ScanRaw(parts, w, h, p)
    IN  <<ScanClamp(raw[1]), ScanClamp(raw[2]), ScanClamp(raw[3]), ScanClamp(raw[4])>>

\* the loop body writing class 0 on every line it appends
ScanBodyRelabel(parts, w, h, p) ==
    LET c == ScanClamped(parts, w, h, p)
    IN  [keep |-> ~ScanCulled(c[1], c[2], c[3], c[4]),
         line |-> <<IntTok(0), Fmt6(c[1]), Fmt6(c[2]), Fmt6(c[3]), Fmt6(c[4])>>]

\* One pass of the loop body on a line that is not skipped: whether it
\* reaches new_lines.append, and the line appended.
ScanBody(parts, w, h, p) ==
    LET c == ScanClamped(parts, w, h, p)
    IN  [keep |-> ~ScanCulled(c[1], c[2], c[3], c[4]),
         line |-> <<parts[1], Fmt6(c[1]), Fmt6(c[2]), Fmt6(c[3]), Fmt6(c[4])>>]

\* the loop with the values drawn again for every line after the first
RECURSIVE ScanLoopResample(_, _, _, _, _, _, _)
ScanLoopResample(label_lines, i, new_lines, kept, w, h, p) ==
    IF i > Len(label_lines) THEN AugReturned(new_lines, kept)
    ELSE IF SkipLine(label_lines[i])
    THEN ScanLoopResample(label_lines, i + 1, new_lines, kept, w, h, p)
    ELSE IF LineRaises(label_lines[i]) THEN AugRaised
    ELSE LET q == IF i = 1 THEN p
                  ELSE [scale |-> RSub(RInt(2), p.scale), jx |-> p.jy, jy |-> p.jx]
             b == ScanBody(label_lines[i], w, h, q)
         IN  IF b.keep
             THEN ScanLoopResample(label_lines, i + 1, Append(new_lines, b.line),
                                   Append(kept, i), w, h, p)
             ELSE ScanLoopResample(label_lines, i + 1, new_lines, kept, w, h, p)

\* The `for line in label_lines` loop of resize_scan_fax from line i on
RECURSIVE ScanLoop(_, _, _, _, _, _, _)
ScanLoop(label_lines, i, new_lines, kept, w, h, p) ==
    IF i > Len(label_lines) THEN AugReturned(new_lines, kept)
    ELSE IF SkipLine(label_lines[i])
    THEN ScanLoop(label_lines, i + 1, new_lines, kept, w, h, p)
    ELSE IF LineRaises(label_lines[i]) THEN AugRaised
    ELSE LET b == ScanBody(label_lines[i], w, h, p)
         IN  IF b.keep
             THEN ScanLoop(label_lines, i + 1, Append(new_lines, b.line),
                           Append(kept, i), w, h, p)
             ELSE ScanLoop(label_lines, i + 1, new_lines, kept, w, h, p)

\* The label half of resize_scan_fax on a w x h image with sampled values p
resize_scan_fax(w, h, label_lines, p) == ScanLoop(label_lines, 1, <<>>, <<>>, w, h, p)

----------------------------------------------------------------------------
(* One frame through collect and augment *)

\* the form's widgets: class name, class id, rect = <<x0, y0, x1, y1>>
Widgets ==
    { [class_name |-> "text",     class_id |-> 0, rect |-> <<0, 700, 122, 720>>],
      [class_name |-> "checkbox", class_id |-> 1, rect |-> <<5, 5, 15, 15>>],
      [class_name |-> "date",     class_id |-> 2, rect |-> <<300, 400, 300, 400>>] }

ImgSizes == {<<200, 250>>, <<80, 100>>}

\* values random.uniform can return: scale in [0.7, 1.3], jitters in [0.95, 1.05]
SampledParams ==
    { [scale |-> Rat(7, 10),  jx |-> Rat(19, 20), jy |-> Rat(19, 20)],
      [scale |-> Rat(1, 1),   jx |-> Rat(1, 1),   jy |-> Rat(1, 1)],
      [scale |-> Rat(13, 10), jx |-> Rat(21, 20), jy |-> Rat(19, 20)] }

\* lines a label file may hold after being edited by hand
EditedLines ==
    { <<Txt(1), Txt(2), Txt(3), Txt(4)>>,                           \* not a valid line
      <<IntTok(1), IntTok(2), IntTok(3)>>,                          \* 1 2 3
      <<IntTok(0), Dec(5, 1), Txt(5), Dec(1, 1), Dec(1, 1)>>,       \* 0 0.5 abc 0.1 0.1
      <<IntTok(0), Dec(5, 1), Dec(5, 1), Dec(1, 1), Dec(1, 1), Dec(9, 1)>>,
      <<IntTok(1), Dec(1234565, 7), Dec(5, 1), Dec(2500005, 7), Dec(1, 1)>>,
      <<Txt(6), Dec(3, 1), Dec(3, 1), Dec(1, 1), Dec(1, 1)>> }      \* checkbox 0.3 0.3 0.1 0.1

FieldSeqs == UNION {[1..n -> Widgets] : n \in 0..MaxFields}

Init ==
    /\ tieUp \in BOOLEAN
    /\ MapIdle
    /\ AugIdle
    /\ SideIdle

\* collect: one page rendered and its label file written
RenderAndLabel ==
    /\ phase = "start"
    /\ \E fs \in FieldSeqs, size \in ImgSizes :
        /\ fields' = fs
        /\ img' = size
        /\ labelLines' = render_and_label(fs, PageW, PageH, size[1], size[2])
    /\ phase' = "labeled"
    /\ op' = "render"
    /\ UNCHANGED <<origin, inLines, par, keptIdx, raised, steps, op0, inLines0,
                   tieUp, mapVars, sideVars>>

\* somebody edits the label file before it is augmented
HandEdit ==
    /\ phase = "labeled"
    /\ op = "render"
    /\ \E e \in EditedLines : labelLines' = Append(labelLines, e)
    /\ origin' = "edited"
    /\ op' = "edit"
    /\ UNCHANGED <<phase, img, fields, inLines, par, keptIdx, raised, steps, op0,
                   inLines0, tieUp, mapVars, sideVars>>

\* what an augmentation leaves behind: its new label file, or the crash
Augmented(name, input, p, res) ==
    /\ op0' = op
    /\ inLines0' = inLines
    /\ op' = name
    /\ inLines' = input
    /\ par' = p
    /\ steps' = steps + 1
    /\ raised' = res.raised
    /\ keptIdx' = res.kept
    /\ phase' = IF res.raised THEN "crashed" ELSE phase
    /\ labelLines' = IF res.raised THEN labelLines ELSE res.lines
    /\ UNCHANGED <<img, fields, origin, tieUp, mapVars, sideVars>>

FlipHorizontal ==
    /\ phase = "labeled"
    /\ steps < MaxSteps
    /\ LET input == ReadLabelLines(labelLines)
       IN  Augmented("flip", input, <<>>, flip_horizontal(input))

ResizeScanFax ==
    /\ phase = "labeled"
    /\ steps < MaxSteps
    /\ \E p \in SampledParams :
        LET input == ReadLabelLines(labelLines)
        IN  Augmented("scanfax", input, p, resize_scan_fax(img[1], img[2], input, p))

Next == RenderAndLabel \/ HandEdit \/ FlipHorizontal \/ ResizeScanFax

Spec == Init /\ [][Next]_vars

----------------------------------------------------------------------------
(* Direct calls of resize_scan_fax *)

\* image sizes: two frames, and one smaller than the minimum resized size
ScanSizes == {<<200, 250>>, <<80, 100>>, <<10, 30>>}

\* "0 <cx> <cy> <w> <h>"
Box(cx, cy, bw, bh) == <<IntTok(0), cx, cy, bw, bh>>

\* boxes on and next to the cull thresholds, written as in a label file
EdgeBoxes ==
    { Box(Dec(0, 1), Dec(5, 1), Dec(2, 2), Dec(1, 1)),                 \* 0.0 0.5 0.02 0.1
      Box(Dec(19200, 6), Dec(5, 1), Dec(1600, 6), Dec(1, 1)),          \* right edge 0.02
      Box(Dec(980700, 6), Dec(5, 1), Dec(1400, 6), Dec(1, 1)),         \* left edge 0.98
      Box(Dec(5, 1), Dec(19200, 6), Dec(1, 1), Dec(1600, 6)),          \* bottom edge 0.02
      Box(Dec(5, 1), Dec(980500, 6), Dec(1, 1), Dec(1000, 6)),         \* top edge 0.98
      Box(Dec(9999, 6), Dec(5, 1), Dec(2, 2), Dec(1, 1)),              \* right edge 0.019999
      Box(Dec(990001, 6), Dec(5, 1), Dec(2, 2), Dec(1, 1)),            \* left edge 0.980001
      Box(Dec(5, 1), Dec(9999, 6), Dec(1, 1), Dec(2, 2)),              \* bottom edge 0.019999
      Box(Dec(5, 1), Dec(990001, 6), Dec(1, 1), Dec(2, 2)) }           \* top edge 0.980001

\* boxes of files with several lines: mid-page, a corner checkbox as
\* render_and_label writes it, and a box in the far corner
FileBoxes ==
    { Box(Dec(5, 1), Dec(5, 1), Dec(2, 1), Dec(1, 1)),
      <<IntTok(1), Dec(20425, 6), Dec(15783, 6), Dec(40850, 6), Dec(31566, 6)>>,
      Box(Dec(9, 1), Dec(95, 2), Dec(1, 1), Dec(5, 2)) }

ScanFiles ==
    {<<b>> : b \in EdgeBoxes} \cup UNION {[1..n -> FileBoxes] : n \in 1..MaxLines}

ScanArgSet == [size : ScanSizes, lines : ScanFiles, p : SampledParams]

\* resize_scan_fax(img, label_lines) with the values a.p sampled
CallScan(a) ==
    [image |-> ScanImage(a.size[1], a.size[2], a.p),
     labels |-> resize_scan_fax(a.size[1], a.size[2], a.lines, a.p)]

ScanInit ==
    /\ tieUp \in BOOLEAN
    /\ scanArgs \in ScanArgSet
    /\ scanCalls = 0
    /\ scanRes = NoScan
    /\ scanPrev = NoScan
    /\ MapIdle
    /\ AugIdle
    /\ PadIdle
    /\ RegIdle
    /\ MainIdle

\* one run of resize_scan_fax on the arguments under study
ScanCall ==
    /\ scanCalls < 2
    /\ scanCalls' = scanCalls + 1
    /\ scanPrev' = scanRes
    /\ scanRes' = CallScan(scanArgs)
    /\ UNCHANGED <<scanArgs, tieUp, mapVars, augVars, padVars, regVars, mainVars>>

\* main moves on to the next frame of the run (frames have one size)
ScanNewArgs ==
    /\ scanCalls > 0
    /\ \E a \in ScanArgSet :
        /\ a.size = scanArgs.size
        /\ a # scanArgs
        /\ scanArgs' = a
    /\ scanCalls' = 0
    /\ scanRes' = NoScan
    /\ scanPrev' = NoScan
    /\ UNCHANGED <<tieUp, mapVars, augVars, padVars, regVars, mainVars>>

ScanNext == ScanCall \/ ScanNewArgs

SpecScan == ScanInit /\ [][ScanNext]_vars

----------------------------------------------------------------------------
(* collect_form.py: one collection run and its class registry *)

\* widget.field_name values on which each pattern finds a match
SignatureNames == {"applicant_signature", "date_signed"}
CaseNames == {"case_number"}
DateNames == {"date_signed", "filing_date", "amount_due_date"}
DollarNames == {"rent_amount", "amount_due_date"}

classify_field(widget) ==
    IF widget.fts \in {"checkbox", "radiobutton"} THEN "checkbox"
    ELSE IF widget.fts = "signature" \/ widget.field_name \in SignatureNames
    THEN "signature"
    ELSE IF widget.fts = "button" THEN "checkbox"
    ELSE IF widget.field_name \in CaseNames THEN "case_number"
    ELSE IF widget.field_name \in DateNames THEN "date_field"
    ELSE IF widget.field_name \in DollarNames THEN "dollar_amount"
    ELSE "text_field"

\* cls.strip().lower().replace(" ", "_") on the config entries tried
Normalize(cls) ==
    CASE cls = "Checkbox" -> "checkbox"
      [] cls = " Text_Field " -> "text_field"
      [] cls = "text field" -> "text_field"
      [] cls = "Date Field" -> "date_field"
      [] cls = "  " -> ""
      [] OTHER -> cls

\* the assignment made at every sight of a name
RegisterAlways(c2i, cls) ==
    [n \in DOMAIN c2i \cup {cls} |->
        IF n = cls THEN Cardinality(DOMAIN c2i) ELSE c2i[n]]

\* if cls not in class_to_id: class_to_id[cls] = len(class_to_id)
Register(c2i, cls) ==
    IF cls \in DOMAIN c2i THEN c2i
    ELSE [n \in DOMAIN c2i \cup {cls} |->
            IF n = cls THEN Cardinality(DOMAIN c2i) ELSE c2i[n]]

\* the names by descending id
RECURSIVE NamesByIdDesc(_)
NamesByIdDesc(c2i) ==
    IF DOMAIN c2i = {} THEN <<>>
    ELSE LET last == CHOOSE n \in DOMAIN c2i : \A m \in DOMAIN c2i : c2i[m] <= c2i[n]
         IN  <<last>> \o NamesByIdDesc([n \in DOMAIN c2i \ {last} |-> c2i[n]])

\* [name for name, _ in sorted(class_to_id.items(), key=lambda item: item[1])]
RECURSIVE NamesById(_)
NamesById(c2i) ==
    IF DOMAIN c2i = {} THEN <<>>
    ELSE LET first == CHOOSE n \in DOMAIN c2i : \A m \in DOMAIN c2i : c2i[n] <= c2i[m]
         IN  <<first>> \o NamesById([n \in DOMAIN c2i \ {first} |-> c2i[n]])

\* "classes" lists of config.json
ConfigLists ==
    { <<>>,
      <<"Checkbox", "text field">>,
      <<"text field", " Text_Field ", "signature">>,
      <<"", "Date Field", "  ">>,
      <<"signature", "Checkbox", "signature">> }

\* widgets of the template: field type, field name, rect
TemplateWidgets ==
    { [fts |-> "checkbox", field_name |-> "agree",           rect |-> <<5, 5, 15, 15>>],
      [fts |-> "text",     field_name |-> "date_signed",     rect |-> <<0, 700, 122, 720>>],
      [fts |-> "text",     field_name |-> "amount_due_date", rect |-> <<300, 400, 300, 400>>],
      [fts |-> "text",     field_name |-> "full_name",       rect |-> <<100, 100, 400, 120>>],
      [fts |-> "button",   field_name |-> "rent_amount",     rect |-> <<500, 750, 560, 770>>] }

WidgetSeqs == UNION {[1..n -> TemplateWidgets] : n \in 0..MaxFields}

RegInit ==
    /\ tieUp \in BOOLEAN
    /\ regStage = "config"
    /\ regConfig \in ConfigLists
    /\ regWidgets \in WidgetSeqs
    /\ regSkip \in BOOLEAN
    /\ regPos = 1
    /\ class_to_id = EmptyDict
    /\ regOrder = <<>>
    /\ page_fields = <<>>
    /\ variation = 0
    /\ regLabels = <<>>
    /\ classesTxt = <<>>
    /\ num_variations \in 0..MaxVariations
    /\ regRun = 1
    /\ prevClasses = <<>>
    /\ MapIdle
    /\ AugIdle
    /\ PadIdle
    /\ ScanIdle
    /\ MainIdle

\* main, lines 383-386: one pass of `for cls in classes_from_config`
RegisterConfigClass ==
    /\ regStage = "config"
    /\ regPos <= Len(regConfig)
    /\ LET normalized == Normalize(regConfig[regPos])
       IN  /\ class_to_id' = IF normalized # "" THEN Register(class_to_id, normalized)
                              ELSE class_to_id
           /\ regOrder' = IF normalized # "" /\ normalized \notin DOMAIN class_to_id
                           THEN Append(regOrder, normalized) ELSE regOrder
    /\ regPos' = regPos + 1
    /\ UNCHANGED <<regStage, regConfig, regWidgets, regSkip, page_fields, variation,
                   regLabels, classesTxt, runVars, tieUp, mapVars, augVars, padVars, scanVars, mainVars>>

\* main, lines 388-408: the template is opened and extract_field_metadata called
OpenTemplate ==
    /\ regStage = "config"
    /\ regPos > Len(regConfig)
    /\ regStage' = "extract"
    /\ regPos' = 1
    /\ UNCHANGED <<regConfig, regWidgets, regSkip, class_to_id, regOrder, page_fields,
                   variation, regLabels, classesTxt, runVars, tieUp, mapVars, augVars, padVars,
                   scanVars, mainVars>>

\* extract_field_metadata, lines 249-258: one pass of `for widget in page.widgets()`
ExtractWidget ==
    /\ regStage = "extract"
    /\ regPos <= Len(regWidgets)
    /\ LET cls == classify_field(regWidgets[regPos])
           c2i == Register(class_to_id, cls)
       IN  /\ class_to_id' = c2i
           /\ regOrder' = IF cls \notin DOMAIN class_to_id
                           THEN Append(regOrder, cls) ELSE regOrder
           /\ page_fields' = Append(page_fields,
                                    [class_name |-> cls, class_id |-> c2i[cls],
                                     rect |-> regWidgets[regPos].rect])
    /\ regPos' = regPos + 1
    /\ UNCHANGED <<regStage, regConfig, regWidgets, regSkip, variation, regLabels,
                   classesTxt, runVars, tieUp, mapVars, augVars, padVars, scanVars, mainVars>>

\* a variation rendered by a render_and_label that enters the classes it
\* labels into class_to_id
RenderVariationRegistering ==
    /\ regStage = "extract"
    /\ regPos > Len(regWidgets)
    /\ variation < num_variations
    /\ variation' = variation + 1
    /\ regLabels' = IF regSkip THEN regLabels
                     ELSE render_and_label(page_fields, PageW, PageH,
                                           RenderSize[1], RenderSize[2])
    /\ class_to_id' = RegisterAlways(class_to_id, "text_field")
    /\ UNCHANGED <<regStage, regConfig, regWidgets, regSkip, regPos,
                   regOrder, page_fields, classesTxt, runVars, tieUp, mapVars, augVars,
                   padVars, scanVars, mainVars>>

\* main, lines 425-431: one variation rendered, its label file written
\* unless skip_labels
RenderVariation ==
    /\ regStage = "extract"
    /\ regPos > Len(regWidgets)
    /\ variation < num_variations
    /\ variation' = variation + 1
    /\ regLabels' = IF regSkip THEN regLabels
                     ELSE render_and_label(page_fields, PageW, PageH,
                                           RenderSize[1], RenderSize[2])
    /\ UNCHANGED <<regStage, regConfig, regWidgets, regSkip, regPos, class_to_id,
                   regOrder, page_fields, classesTxt, runVars, tieUp, mapVars, augVars, padVars,
                   scanVars, mainVars>>

\* main, lines 436-439: classes.txt written, one name per line
WriteClasses ==
    /\ regStage = "extract"
    /\ regPos > Len(regWidgets)
    /\ variation = num_variations
    /\ classesTxt' = NamesById(class_to_id)
    /\ regStage' = "done"
    /\ UNCHANGED <<regConfig, regWidgets, regSkip, regPos, class_to_id, regOrder,
                   page_fields, variation, regLabels, runVars, tieUp, mapVars, augVars, padVars,
                   scanVars, mainVars>>

RegNext ==
    RegisterConfigClass \/ OpenTemplate \/ ExtractWidget \/ RenderVariation \/ WriteClasses

SpecCollect == RegInit /\ [][RegNext]_vars

----------------------------------------------------------------------------
(* Two collection runs into one output directory *)

\* a first run in vision mode on a template of at most one widget
RunsInit ==
    /\ RegInit
    /\ regSkip
    /\ Len(regWidgets) <= 1
    /\ num_variations <= 1

\* main is started again on the same output directory: config.json may have
\* changed, form_template.pdf is the cached one, classes.txt is still there
StartNextRun ==
    /\ regStage = "done"
    /\ regRun = 1
    /\ regRun' = 2
    /\ prevClasses' = classesTxt
    /\ regConfig' \in ConfigLists
    /\ num_variations' \in 0..1
    /\ regStage' = "config"
    /\ regPos' = 1
    /\ class_to_id' = EmptyDict
    /\ regOrder' = <<>>
    /\ page_fields' = <<>>
    /\ variation' = 0
    /\ regLabels' = <<>>
    /\ UNCHANGED <<regWidgets, regSkip, classesTxt, tieUp, mapVars, augVars, padVars,
                   scanVars, mainVars>>

RunsNext == RegNext \/ StartNextRun

SpecRuns == RunsInit /\ [][RunsNext]_vars

----------------------------------------------------------------------------
(* augment/scripts/run.py: main *)

\* label files of the frames directory: an empty file; one box; a box, a
\* blank line and a 3-token line; a 4-token line and a box with a word as its
\* class; a box and a line with a token that is no number
LabelFiles ==
    { <<>>,
      <<Box(Dec(5, 1), Dec(5, 1), Dec(2, 1), Dec(1, 1))>>,
      << <<IntTok(1), Dec(20425, 6), Dec(15783, 6), Dec(40850, 6), Dec(31566, 6)>>,
         <<>>,
         <<IntTok(1), IntTok(2), IntTok(3)>> >>,
      << <<Txt(1), Txt(2), Txt(3), Txt(4)>>,
         <<Txt(6), Dec(3, 1), Dec(3, 1), Dec(1, 1), Dec(1, 1)>> >>,
      << Box(Dec(9, 1), Dec(95, 2), Dec(1, 1), Dec(5, 2)),
         <<IntTok(0), Dec(5, 1), Txt(5), Dec(1, 1), Dec(1, 1)>> >> }

\* a .jpg of the frames directory, with or without its sibling .txt
FrameSet ==
    {[labeled |-> FALSE, file |-> <<>>]} \cup {[labeled |-> TRUE, file |-> f] : f \in LabelFiles}

\* the size of every frame
FrameSize == <<200, 250>>

\* every frame taken, labeled or not
LabeledAll(fr) == [i \in 1..Len(fr) |-> i]

\* labeled = [f for f in frames if f.with_suffix(".txt").exists()], as
\* positions in the sorted list of frames
RECURSIVE LabeledFrom(_, _, _)
LabeledFrom(fr, i, acc) ==
    IF i > Len(fr) THEN acc
    ELSE LabeledFrom(fr, i + 1, IF fr[i].labeled THEN Append(acc, i) ELSE acc)

Labeled(fr) == LabeledFrom(fr, 1, <<>>)

\* the lines of a photometric augmentation's label file with the lines that
\* have no 5 tokens left out
PhotometricLabelsBoxes(label_lines) == SelectSeq(label_lines, LAMBDA l : Len(l) = 5)

\* "\n".join(label_lines): what brightness, contrast, noise and watermark
\* write as their label file
PhotometricLabels(label_lines) == label_lines

\* the frame the loop body works on and its label_lines
FrameAtHand == Labeled(frames)[labeledPos]
LabelLinesAtHand == ReadLabelLines(frames[FrameAtHand].file)

\* out_img and out_lbl written, count += 1
WritePair(suffix, lines) ==
    /\ written' = Append(written, [frame |-> FrameAtHand, suffix |-> suffix, labels |-> lines])
    /\ count' = count + 1

MainInit ==
    /\ tieUp \in BOOLEAN
    /\ frames \in UNION {[1..n -> FrameSet] : n \in 0..MaxFrames}
    /\ mainPc = "start"
    /\ labeledPos = 1
    /\ augStep = 1
    /\ written = <<>>
    /\ count = 0
    /\ returnCode = -1
    /\ MapIdle
    /\ AugIdle
    /\ PadIdle
    /\ ScanIdle
    /\ RegIdle

\* lines 235-243: the frames are listed and filtered; without a labeled
\* frame main returns 1
MainStart ==
    /\ mainPc = "start"
    /\ IF Labeled(frames) = <<>>
       THEN mainPc' = "returned" /\ returnCode' = 1
       ELSE mainPc' = "loop" /\ returnCode' = returnCode
    /\ UNCHANGED <<frames, labeledPos, augStep, written, count, tieUp, mapVars, augVars,
                   padVars, scanVars, regVars>>

\* a label-transforming augmentation of the loop body: its pair is written,
\* or its exception ends main
TransformStep(suffix, res) ==
    /\ IF res.raised
       THEN mainPc' = "crashed" /\ UNCHANGED <<written, count, augStep, labeledPos>>
       ELSE /\ WritePair(suffix, res.lines)
            /\ mainPc' = mainPc
            /\ augStep' = IF augStep = 6 THEN 1 ELSE augStep + 1
            /\ labeledPos' = IF augStep = 6 THEN labeledPos + 1 ELSE labeledPos
    /\ UNCHANGED <<frames, returnCode, tieUp, mapVars, augVars, padVars, scanVars, regVars>>

\* a photometric augmentation of the loop body
PhotometricStep(suffix) ==
    /\ WritePair(suffix, PhotometricLabels(LabelLinesAtHand))
    /\ augStep' = augStep + 1
    /\ UNCHANGED <<frames, mainPc, labeledPos, returnCode, tieUp, mapVars, augVars,
                   padVars, scanVars, regVars>>

\* the loop body is at a frame
InLoop == mainPc = "loop" /\ labeledPos <= Len(Labeled(frames))

\* lines 253-259
AugFlip ==
    /\ InLoop
    /\ augStep = 1
    /\ TransformStep("flip", flip_horizontal(LabelLinesAtHand))

\* lines 261-268
AugBright == InLoop /\ augStep = 2 /\ PhotometricStep("bright")

\* lines 270-277
AugContrast == InLoop /\ augStep = 3 /\ PhotometricStep("contrast")

\* lines 279-285
AugNoise == InLoop /\ augStep = 4 /\ PhotometricStep("noise")

\* lines 287-293
AugWatermark == InLoop /\ augStep = 5 /\ PhotometricStep("watermark")

\* lines 295-301
AugScanFax ==
    /\ InLoop
    /\ augStep = 6
    /\ \E p \in SampledParams :
        TransformStep("scanfax", resize_scan_fax(FrameSize[1], FrameSize[2],
                                                 LabelLinesAtHand, p))

\* lines 303-304: the loop is over
MainReturn ==
    /\ mainPc = "loop"
    /\ labeledPos > Len(Labeled(frames))
    /\ mainPc' = "returned"
    /\ returnCode' = 0
    /\ UNCHANGED <<frames, labeledPos, augStep, written, count, tieUp, mapVars, augVars,
                   padVars, scanVars, regVars>>

MainNext ==
    \/ MainStart
    \/ AugFlip
    \/ AugBright
    \/ AugContrast
    \/ AugNoise
    \/ AugWatermark
    \/ AugScanFax
    \/ MainReturn

SpecAug == MainInit /\ [][MainNext]_vars

----------------------------------------------------------------------------
(* Properties of pdf_rect_to_yolo, under SpecMap *)

AllDimsPositive(a) ==
    a.page[1] > 0 /\ a.page[2] > 0 /\ a.image[1] > 0 /\ a.image[2] > 0

\* a 6-decimal numeral of a value in [0, 1]
InUnit(tok) == tok[1] = "dec" /\ tok[3] = 6 /\ 0 <= tok[2] /\ tok[2] <= 1000000

\* C1: with all four dimensions > 0, whatever the rectangle (zero-area,
\* reversed, beyond the page), pdf_rect_to_yolo returns a line whose cx, cy,
\* w and h lie in [0, 1], and a second call with the same arguments returns
\* the same line.
C1_MapperBoundedAndRepeatable ==
    (mapCalls > 0 /\ AllDimsPositive(mapArgs)) =>
        /\ mapRes.err = "none"
        /\ Len(mapRes.line) = 5
        /\ \A k \in 2..5 : InUnit(mapRes.line[k])
        /\ (mapCalls = 2 => mapPrev = mapRes)

\* a rectangle beyond the page's right edge and of zero height, mapped twice:
\* cx is clamped to 1 and h is 0
C1_Witness ==
    /\ mapCalls = 2
    /\ AllDimsPositive(mapArgs)
    /\ mapArgs.rx = <<600, 700>>
    /\ mapArgs.ry = <<400, 400>>
    /\ mapRes.err = "none"
    /\ mapRes.line[2] = Dec(1000000, 6)
    /\ mapRes.line[5] = Dec(0, 6)

\* C6: a call with any of the four dimensions zero or negative fails with an
\* error and returns no label line.
C6_NonPositiveDimensionFails ==
    (mapCalls > 0 /\ ~AllDimsPositive(mapArgs)) =>
        /\ mapRes.err # "none"
        /\ mapRes.line = <<>>

----------------------------------------------------------------------------
(* Properties of the label transforms, under Spec *)

Range(seq) == {seq[i] : i \in 1..Len(seq)}

Augmentations == {"flip", "scanfax"}

\* the last operation was an augmentation that returned
AugDone == op \in Augmentations /\ ~raised

\* tok is the 6-decimal numeral nearest to x (either neighbour at a tie)
NearestMicro(tok, x) ==
    /\ tok[1] = "dec"
    /\ tok[3] = 6
    /\ RLe(RAbs(RSub(RInt(tok[2]), RMul(x, RInt(1000000)))), Rat(1, 2))

\* parts is a box line: 5 tokens, the last four numerals
WellFormed(parts) == Len(parts) = 5 /\ \A k \in 2..5 : ~Unparseable(parts[k])

\* C2: from a label file written by render_and_label, after any sequence of
\* flip_horizontal and resize_scan_fax every emitted box has cx, cy, w and h
\* in [0, 1].
C2_AugmentedBoxesInUnitInterval ==
    (origin = "rendered" /\ op \in {"render"} \cup Augmentations) =>
        \A i \in 1..Len(labelLines) :
            /\ Len(labelLines[i]) = 5
            /\ \A k \in 2..5 : InUnit(labelLines[i][k])

\* a flip followed by a scan/fax resize of a rendered file, in which a
\* centre was clamped at the top and a width lies strictly inside
C2_Witness ==
    /\ origin = "rendered"
    /\ op = "scanfax"
    /\ op0 = "flip"
    /\ ~raised
    /\ \E i \in 1..Len(labelLines) :
        /\ labelLines[i][2] = Dec(999000, 6)
        /\ labelLines[i][4][2] > 1000
        /\ labelLines[i][4][2] < 999000

\* the box of a line is off the canvas by the edges of its transformed,
\* not yet clamped centre and size
PreClampOffCanvas(parts, w, h, p) ==
    LET raw == ScanRaw(parts, w, h, p)
    IN  \/ RLt(Rat(98, 100), RSub(raw[1], RDiv(raw[3], RInt(2))))
        \/ RLt(RAdd(raw[1], RDiv(raw[3], RInt(2))), Rat(2, 100))
        \/ RLt(Rat(98, 100), RSub(raw[2], RDiv(raw[4], RInt(2))))
        \/ RLt(RAdd(raw[2], RDiv(raw[4], RInt(2))), Rat(2, 100))

\* C3: resize_scan_fax drops every box whose edges, computed from the
\* transformed centre and size before clamping, lie beyond 0.02 / 0.98.
C3_CullUsesPreClampEdges ==
    (op = "scanfax" /\ ~raised) =>
        \A i \in 1..Len(inLines) :
            (WellFormed(inLines[i]) /\ PreClampOffCanvas(inLines[i], img[1], img[2], par))
                => i \notin Range(keptIdx)

\* the numeral emitted for the renormalized value x under a clamp to [lo, hi]
EmittedUnderClamp(tok, x, lo, hi, loTok, hiTok) ==
    IF RLt(x, lo) THEN tok = loTok
    ELSE IF RLt(hi, x) THEN tok = hiTok
    ELSE NearestMicro(tok, x)

\* C4 (as amended): every value of a box kept by resize_scan_fax is the
\* renormalized transformed value clamped to [0.001, 0.999]: a value inside
\* is emitted unchanged up to 6-decimal formatting, a value below 0.001 as
\* 0.001000 and a value above 0.999 as 0.999000.
C4_EmittedIsClampedTo001_999 ==
    (op = "scanfax" /\ ~raised) =>
        \A j \in 1..Len(labelLines) :
            LET raw == ScanRaw(inLines[keptIdx[j]], img[1], img[2], par)
            IN  \A k \in 1..4 :
                    EmittedUnderClamp(labelLines[j][k + 1], raw[k], Rat(1, 1000),
                                      Rat(999, 1000), Dec(1000, 6), Dec(999000, 6))

\* a kept box with a width of 0 before the clamp, emitted as 0.001000, and a
\* centre inside (0.001, 0.999) emitted as it is
C4_Witness ==
    /\ op = "scanfax"
    /\ ~raised
    /\ \E j \in 1..Len(labelLines) :
        LET raw == ScanRaw(inLines[keptIdx[j]], img[1], img[2], par)
        IN  /\ raw[3] = RInt(0)
            /\ labelLines[j][4] = Dec(1000, 6)
            /\ RLt(Rat(1, 1000), raw[1])
            /\ RLt(raw[1], Rat(999, 1000))

\* C4 (as claimed): the clamp is to [0, 1]: a value in [0, 1] (0 and 1
\* included) is emitted unchanged, a value below 0 as 0, above 1 as 1.
C4_EmittedIsClampedToUnit ==
    (op = "scanfax" /\ ~raised) =>
        \A j \in 1..Len(labelLines) :
            LET raw == ScanRaw(inLines[keptIdx[j]], img[1], img[2], par)
            IN  \A k \in 1..4 :
                    EmittedUnderClamp(labelLines[j][k + 1], raw[k], RInt(0),
                                      RInt(1), Dec(0, 6), Dec(1000000, 6))

\* C5: no label line written by render_and_label, flip_horizontal or
\* resize_scan_fax has w <= 0 or h <= 0.
C5_NoZeroSizeLineEmitted ==
    (op \in {"render"} \cup Augmentations /\ ~raised) =>
        \A i \in 1..Len(labelLines) :
            /\ labelLines[i][4][2] > 0
            /\ labelLines[i][5][2] > 0

\* C7: a 5-token line with an unparseable number is skipped by
\* flip_horizontal and resize_scan_fax, which go on to emit the other lines.
C7_MalformedLineSkipped ==
    (op \in Augmentations /\ \E i \in 1..Len(inLines) : LineRaises(inLines[i])) =>
        /\ ~raised
        /\ op = "flip" =>
            \A i \in 1..Len(inLines) : WellFormed(inLines[i]) => i \in Range(keptIdx)

\* the label transform `name` applied to `lines`
Transform(name, lines) ==
    IF name = "flip" THEN flip_horizontal(lines)
    ELSE resize_scan_fax(img[1], img[2], lines, par)

\* C8: a line whose token count is not 5 is ignored by both transforms: it
\* yields no output line, raises nothing, and the output is what the other
\* lines alone would give.
C8_WrongTokenCountIgnored ==
    op \in Augmentations =>
        /\ \A j \in 1..Len(keptIdx) : Len(inLines[keptIdx[j]]) = 5
        /\ raised => \E i \in 1..Len(inLines) :
                        Len(inLines[i]) = 5 /\ \E k \in 2..5 : Unparseable(inLines[i][k])
        /\ ~raised =>
            labelLines = Transform(op, SelectSeq(inLines, LAMBDA l : Len(l) = 5)).lines

\* a file holding a 4-token line (not a valid line) or a 6-token line beside
\* a box line went through a transform that emitted the box
C8_Witness ==
    /\ AugDone
    /\ \E i \in 1..Len(inLines) : Len(inLines[i]) \in {4, 6}
    /\ Len(labelLines) >= 1
    /\ Len(labelLines) < Len(inLines)

\* the digits of a numeral with at most 6 decimals, written with 6
Micros(tok) == tok[2] * Pow10(6 - tok[3])

\* C9: flip_horizontal emits, for every well-formed input box, a box with
\* cx' = 1 - cx, cy' = cy, w' = w, h' = h at 6-decimal precision and the
\* same class token.
C9_FlipMirrorsCentre ==
    (op = "flip" /\ ~raised) =>
        /\ \A i \in 1..Len(inLines) : WellFormed(inLines[i]) => i \in Range(keptIdx)
        /\ Len(labelLines) = Len(keptIdx)
        /\ \A j \in 1..Len(labelLines) :
            LET parts == inLines[keptIdx[j]]
                out == labelLines[j]
            IN  /\ out[1] = parts[1]
                /\ NearestMicro(out[2], RSub(RInt(1), ParseFloat(parts[2])))
                /\ parts[2][3] <= 6 => out[2][2] = 1000000 - Micros(parts[2])
                /\ \A k \in 3..5 :
                    /\ NearestMicro(out[k], ParseFloat(parts[k]))
                    /\ parts[k][3] <= 6 => out[k][2] = Micros(parts[k])

\* a flip of a file that holds a rendered box off the centre line and an
\* edited box with a word as its class token
C9_Witness ==
    /\ op = "flip"
    /\ ~raised
    /\ \E j \in 1..Len(labelLines) :
        labelLines[j][1] = Txt(6) /\ labelLines[j][2] = Dec(700000, 6)
    /\ \E j \in 1..Len(labelLines) :
        labelLines[j][2] = Dec(900327, 6) /\ inLines[keptIdx[j]][2] = Dec(99673, 6)

\* every line is a box line with cx, cy, w, h in [0, 1]
BoxesInUnit(lines) ==
    \A i \in 1..Len(lines) :
        /\ WellFormed(lines[i])
        /\ \A k \in 2..5 :
            RLe(RInt(0), ParseFloat(lines[i][k])) /\ RLe(ParseFloat(lines[i][k]), RInt(1))

\* C10: two flips in a row of well-formed boxes in [0, 1] give back as many
\* boxes in the same order, each with its class and with cx, cy, w, h within
\* 1e-6 of the original, equal to it when it has at most 6 decimals.
C10_FlipTwiceIsIdentity ==
    (op = "flip" /\ op0 = "flip" /\ ~raised /\ BoxesInUnit(inLines0)) =>
        /\ Len(labelLines) = Len(inLines0)
        /\ \A i \in 1..Len(labelLines) :
            /\ labelLines[i][1] = inLines0[i][1]
            /\ \A k \in 2..5 :
                /\ RLe(RAbs(RSub(ParseFloat(labelLines[i][k]), ParseFloat(inLines0[i][k]))),
                       Rat(1, 1000000))
                /\ inLines0[i][k][3] <= 6 =>
                    ParseFloat(labelLines[i][k]) = ParseFloat(inLines0[i][k])

\* two flips of a file that holds a rendered box and the edited box with
\* 7-decimal values
C10_Witness ==
    /\ op = "flip"
    /\ op0 = "flip"
    /\ ~raised
    /\ BoxesInUnit(inLines0)
    /\ Len(inLines0) >= 2
    /\ \E i \in 1..Len(inLines0) : inLines0[i][2] = Dec(1234565, 7)
    /\ \E i \in 1..Len(inLines0) : inLines0[i][2] = Dec(99673, 6)

----------------------------------------------------------------------------
(* flip_horizontal keeps every box *)

\* the positions of the 5-token lines of a file
FiveTokenIdx(lines) == {i \in 1..Len(lines) : Len(lines[i]) = 5}

\* C11: flip_horizontal culls nothing: its output holds exactly one line for
\* every 5-token input line, in the order of the input, whatever the box's
\* position or size.
C11_FlipCullsNothing ==
    (op = "flip" /\ ~raised) =>
        /\ Len(labelLines) = Cardinality(FiveTokenIdx(inLines))
        /\ Len(keptIdx) = Len(labelLines)
        /\ Range(keptIdx) = FiveTokenIdx(inLines)
        /\ \A j \in 1..Len(keptIdx) : \A k \in 1..Len(keptIdx) :
              j < k => keptIdx[j] < keptIdx[k]

\* a flip of a file that holds a zero-size box, a second box and a line that
\* is not a box
C11_Witness ==
    /\ op = "flip"
    /\ ~raised
    /\ Len(labelLines) = 2
    /\ \E i \in 1..Len(inLines) : Len(inLines[i]) = 5 /\ inLines[i][4] = Dec(0, 6)
    /\ \E i \in 1..Len(inLines) : Len(inLines[i]) # 5

----------------------------------------------------------------------------
(* Properties of the checkbox padding, under SpecPad *)

\* the field at hand has been through lines 301-316
Padded == padStage = "padded"

\* the widget's own rectangle, as rationals
PadIn == <<RInt(padField.rect[1]), RInt(padField.rect[2]),
           RInt(padField.rect[3]), RInt(padField.rect[4])>>

\* C12: for every checkbox rectangle with x0 <= x1 and y0 <= y1, also one
\* that touches, straddles or lies beyond a page edge, the four padded
\* coordinates lie inside the page: 0 <= x0', x1' <= pageW and
\* 0 <= y0', y1' <= pageH.
C12_PaddedInsidePage ==
    (/\ Padded
     /\ padField.class_name = "checkbox"
     /\ padField.rect[1] <= padField.rect[3]
     /\ padField.rect[2] <= padField.rect[4]) =>
        /\ RLe(RInt(0), padOut[1]) /\ RLe(padOut[1], RInt(PageW))
        /\ RLe(RInt(0), padOut[3]) /\ RLe(padOut[3], RInt(PageW))
        /\ RLe(RInt(0), padOut[2]) /\ RLe(padOut[2], RInt(PageH))
        /\ RLe(RInt(0), padOut[4]) /\ RLe(padOut[4], RInt(PageH))

\* C13: the padding step changes the rectangle of checkbox fields only; for
\* every other class the rectangle handed to pdf_rect_to_yolo is the
\* widget's rectangle, x0, y0, x1, y1 unchanged.
C13_OnlyCheckboxPadded ==
    (Padded /\ padField.class_name # "checkbox") => padOut = PadIn

\* a text field that straddles the right page edge went through unchanged
C13_Witness ==
    /\ Padded
    /\ padField.class_name = "text"
    /\ padField.rect = <<600, 5, 620, 15>>
    /\ padOut = <<RInt(600), RInt(5), RInt(620), RInt(15)>>

\* the padded extent of the widget's rectangle stays inside the page
PadFits ==
    LET r == padField.rect
    IN  /\ r[1] - (r[3] - r[1]) >= 0
        /\ r[3] + (r[3] - r[1]) <= PageW
        /\ r[2] - (r[4] - r[2]) >= 0
        /\ r[4] + (r[4] - r[2]) <= PageH

\* C14: with CHECKBOX_PAD_FACTOR = 1.0 a checkbox rectangle whose padded
\* extent stays inside the page comes out 3 times as wide and 3 times as
\* high, its centre where it was.
C14_PadTriplesSize ==
    (Padded /\ padField.class_name = "checkbox" /\ PadFits) =>
        /\ RSub(padOut[3], padOut[1]) = RMul(RInt(3), RSub(PadIn[3], PadIn[1]))
        /\ RSub(padOut[4], padOut[2]) = RMul(RInt(3), RSub(PadIn[4], PadIn[2]))
        /\ RAdd(padOut[1], padOut[3]) = RAdd(PadIn[1], PadIn[3])
        /\ RAdd(padOut[2], padOut[4]) = RAdd(PadIn[2], PadIn[4])

\* the checkbox (200, 400)-(300, 420) came out as (100, 380)-(400, 440)
C14_Witness ==
    /\ Padded
    /\ padField.class_name = "checkbox"
    /\ padField.rect = <<200, 400, 300, 420>>
    /\ PadFits
    /\ padOut = <<RInt(100), RInt(380), RInt(400), RInt(440)>>

----------------------------------------------------------------------------
(* Properties of resize_scan_fax, under SpecScan *)

\* resize_scan_fax has run on scanArgs
ScanDone == scanCalls > 0

\* the exact products w * scale * aspect_jitter_x and h * scale * aspect_jitter_y
ScaledW == RMul(RMul(RInt(scanArgs.size[1]), scanArgs.p.scale), scanArgs.p.jx)
ScaledH == RMul(RMul(RInt(scanArgs.size[2]), scanArgs.p.scale), scanArgs.p.jy)

\* n is x with its fraction dropped, or the minimum size where that is smaller
TruncatedOrMin(n, x) ==
    \/ n = 64 /\ RLt(x, RInt(65))
    \/ n >= 64 /\ RLe(RInt(n), x) /\ RLt(x, RInt(n + 1))

\* n is the integer nearest to x (either neighbour at a tie), or the minimum
\* size where that is smaller
RoundedOrMin(n, x) ==
    \/ n = 64 /\ RLe(x, Rat(129, 2))
    \/ n >= 64 /\ RLe(RAbs(RSub(RInt(n), x)), Rat(1, 2))

\* C15 (as stated): the resized image is round(origW * scale * aspectJitterX)
\* by round(origH * scale * aspectJitterY), rounded to the nearest integer,
\* each replaced by the minimum pixel size when smaller.
C15_NewSizeIsRounded ==
    ScanDone =>
        /\ RoundedOrMin(scanRes.image.placed.new_w, ScaledW)
        /\ RoundedOrMin(scanRes.image.placed.new_h, ScaledH)

\* C15 (amended): the resized image is int(origW * scale * aspectJitterX) by
\* int(origH * scale * aspectJitterY), the fraction dropped, each replaced
\* by 64 when smaller.
C15_NewSizeIsTruncated ==
    ScanDone =>
        /\ TruncatedOrMin(scanRes.image.placed.new_w, ScaledW)
        /\ TruncatedOrMin(scanRes.image.placed.new_h, ScaledH)

\* 250 * 1.3 * 0.95 = 308.75 gave a resized height of 308
C15_Witness ==
    /\ ScanDone
    /\ scanArgs.size = <<200, 250>>
    /\ ScaledH = Rat(1235, 4)
    /\ scanRes.image.placed.new_h = 308

\* C16: the canvas returned has the input image's width and height; the
\* resized image sits at offset (floor((w - newW)/2), floor((h - newH)/2));
\* the region copied from it is non-empty, min(newW, w) x min(newH, h) in
\* size, inside the resized image and, once pasted, inside the canvas.
C16_CropFitsCanvas ==
    ScanDone =>
        LET w == scanArgs.size[1]
            h == scanArgs.size[2]
            pl == scanRes.image.placed
            src == scanRes.image.crop.src
            dst == scanRes.image.crop.dst
            cw == src[3] - src[1]
            ch == src[4] - src[2]
        IN  /\ scanRes.image.canvas = <<w, h>>
            /\ 2 * pl.paste_x <= w - pl.new_w /\ w - pl.new_w <= 2 * pl.paste_x + 1
            /\ 2 * pl.paste_y <= h - pl.new_h /\ h - pl.new_h <= 2 * pl.paste_y + 1
            /\ cw > 0 /\ ch > 0
            /\ cw = Min(pl.new_w, w) /\ ch = Min(pl.new_h, h)
            /\ src[1] >= 0 /\ src[3] <= pl.new_w
            /\ src[2] >= 0 /\ src[4] <= pl.new_h
            /\ dst[1] >= 0 /\ dst[1] + cw <= w
            /\ dst[2] >= 0 /\ dst[2] + ch <= h

\* a 10 x 30 image, where the 64 x 64 resized image overhangs on every side,
\* or a 200 x 250 image shrunk to 133 x 166 with background on every side
C16_Witness ==
    /\ ScanDone
    /\ \/ /\ scanArgs.size = <<10, 30>>
          /\ scanRes.image.crop.src = <<27, 17, 37, 47>>
          /\ scanRes.image.crop.dst = <<0, 0>>
       \/ /\ scanArgs.size = <<200, 250>>
          /\ scanRes.image.crop.src = <<0, 0, 133, 166>>
          /\ scanRes.image.crop.dst = <<33, 42>>

UnitParams == [scale |-> Rat(1, 1), jx |-> Rat(1, 1), jy |-> Rat(1, 1)]

\* the box of a label line has an edge strictly beyond a cull threshold
BeyondThreshold(parts) ==
    LET cx == ParseFloat(parts[2])
        cy == ParseFloat(parts[3])
        bw == ParseFloat(parts[4])
        bh == ParseFloat(parts[5])
    IN  \/ RLt(RAdd(cx, RDiv(bw, RInt(2))), Rat(2, 100))
        \/ RLt(Rat(98, 100), RSub(cx, RDiv(bw, RInt(2))))
        \/ RLt(RAdd(cy, RDiv(bh, RInt(2))), Rat(2, 100))
        \/ RLt(Rat(98, 100), RSub(cy, RDiv(bh, RInt(2))))

\* C17: with scale = 1 and both jitters = 1 on an image of at least 64 px
\* each way the cull thresholds are strict: the box (0.0, 0.5, 0.02, 0.1) is
\* culled, a box with an edge exactly on 0.02 or 0.98 is retained, a box
\* with an edge just beyond 0.02 or 0.98 is culled, on both axes.
C17_CullThresholdsStrict ==
    (/\ ScanDone
     /\ scanArgs.p = UnitParams
     /\ scanArgs.size[1] >= 64 /\ scanArgs.size[2] >= 64
     /\ Len(scanArgs.lines) = 1
     /\ scanArgs.lines[1] \in EdgeBoxes) =>
        (scanRes.labels.lines = <<>>) = BeyondThreshold(scanArgs.lines[1])

\* the centre and the size a kept line must carry, from the values sampled
\* for the invocation and the offset the image was pasted at
ExpectedScan(parts) ==
    LET w == scanArgs.size[1]
        h == scanArgs.size[2]
        q == scanArgs.p
        pl == scanRes.image.placed
    IN  <<ScanClamp(RDiv(RAdd(RMul(RMul(RMul(ParseFloat(parts[2]), RInt(w)), q.scale), q.jx),
                              RInt(pl.paste_x)), RInt(w))),
          ScanClamp(RDiv(RAdd(RMul(RMul(RMul(ParseFloat(parts[3]), RInt(h)), q.scale), q.jy),
                              RInt(pl.paste_y)), RInt(h))),
          ScanClamp(RMul(RMul(ParseFloat(parts[4]), q.scale), q.jx)),
          ScanClamp(RMul(RMul(ParseFloat(parts[5]), q.scale), q.jy))>>

\* C18: the values sampled for an invocation of resize_scan_fax serve every
\* box of it and the image: each emitted line is its input line transformed
\* with those values and the image's paste offset, and two invocations that
\* sample the same values on the same image size and lines emit the same
\* lines.
C18_OneSamplePerInvocation ==
    /\ scanCalls = 2 => scanRes = scanPrev
    /\ ScanDone =>
         \A j \in 1..Len(scanRes.labels.lines) :
            LET parts == scanArgs.lines[scanRes.labels.kept[j]]
                out == scanRes.labels.lines[j]
                e == ExpectedScan(parts)
            IN  /\ out[1] = parts[1]
                /\ \A k \in 1..4 : NearestMicro(out[k + 1], e[k])

\* two runs with scale 1.3 on a 200 x 250 frame of two boxes, both kept
C18_Witness ==
    /\ scanCalls = 2
    /\ scanArgs.size = <<200, 250>>
    /\ scanArgs.p.scale = Rat(13, 10)
    /\ Len(scanArgs.lines) = 2
    /\ Len(scanRes.labels.lines) = 2
    /\ scanRes.labels.lines[1] # scanRes.labels.lines[2]

----------------------------------------------------------------------------
(* Properties of the class registry, under SpecCollect *)

\* the ids in use
Ids == {class_to_id[n] : n \in DOMAIN class_to_id}

\* C19: after any sequence of registrations (config classes, then widget
\* classes) class_to_id is injective, its ids are exactly 0 .. n-1 for n
\* names, and the id of a name is the number of names registered before its
\* first sight; as the order of first sights only grows, an id once given is
\* never changed or removed.
C19_RegistryIdsDenseAndStable ==
    /\ \A a \in DOMAIN class_to_id : \A b \in DOMAIN class_to_id :
          class_to_id[a] = class_to_id[b] => a = b
    /\ Ids = 0 .. (Cardinality(DOMAIN class_to_id) - 1)
    /\ Range(regOrder) = DOMAIN class_to_id
    /\ \A i \in 1..Len(regOrder) : class_to_id[regOrder[i]] = i - 1

\* config and widgets both registered names, one widget class was already
\* known from the config, one was new
C19_Witness ==
    /\ regStage = "extract"
    /\ regPos > Len(regWidgets)
    /\ Len(regOrder) >= 3
    /\ \E i \in 1..Len(regWidgets) : \E j \in 1..Len(regConfig) :
          classify_field(regWidgets[i]) = Normalize(regConfig[j])
    /\ \E i \in 1..Len(regWidgets) : \A j \in 1..Len(regConfig) :
          classify_field(regWidgets[i]) # Normalize(regConfig[j])

\* C20: at the end of a run line i (0-based) of classes.txt is the name with
\* id i, and the class id heading a label line of the run is a line index of
\* classes.txt, the line being the class classify_field gave that field.
C20_ClassesTxtMatchesLabelIds ==
    regStage = "done" =>
        /\ Len(classesTxt) = Cardinality(DOMAIN class_to_id)
        /\ \A n \in DOMAIN class_to_id :
              /\ class_to_id[n] + 1 \in 1..Len(classesTxt)
              /\ classesTxt[class_to_id[n] + 1] = n
        /\ \A j \in 1..Len(regLabels) :
              LET id == regLabels[j][1][2]
              IN  /\ regLabels[j][1] = IntTok(id)
                  /\ id + 1 \in 1..Len(classesTxt)
                  /\ classesTxt[id + 1] = classify_field(regWidgets[j])

\* a finished run with config classes, two label lines of different classes
\* and three lines in classes.txt
C20_Witness ==
    /\ regStage = "done"
    /\ Len(regLabels) = 2
    /\ regLabels[1][1] # regLabels[2][1]
    /\ Len(classesTxt) >= 3
    /\ Len(regConfig) > 0

----------------------------------------------------------------------------
(* Properties of the class registry across and within runs *)

\* C21: across two successive collection runs into one output directory,
\* every class name in classes.txt after the first run keeps its line index
\* (class id) in classes.txt after the second run, whatever the second run's
\* config classes and widget classes are.
C21_IdsKeptAcrossRuns ==
    (regRun = 2 /\ regStage = "done") =>
        \A i \in 1..Len(prevClasses) :
            i <= Len(classesTxt) /\ classesTxt[i] = prevClasses[i]

\* classes.txt has been written by the run at hand
ClassesWritten == regStage = "done"

\* C22: the registry is built before any image is processed: class_to_id is
\* not modified once a variation has been rendered, and classes.txt is
\* written once, after the label files of all variations.
C22_RegistryFrozenBeforeRendering ==
    /\ [](ClassesWritten => variation = num_variations)
    /\ [][/\ variation > 0 => class_to_id' = class_to_id
          /\ variation' > variation => class_to_id' = class_to_id
          /\ ClassesWritten =>
                /\ classesTxt' = classesTxt
                /\ variation' = variation
                /\ regLabels' = regLabels]_vars

\* a finished run of two variations with label files and two classes
C22_Witness ==
    /\ ClassesWritten
    /\ regRun = 1
    /\ variation = 2
    /\ ~regSkip
    /\ Len(regLabels) >= 1
    /\ Len(classesTxt) >= 2

----------------------------------------------------------------------------
(* The label codec and the mapping, under SpecMap *)

\* the exact box of the call under study, each value clamped to [0, 1]
ClampedBox(a) ==
    LET box == YoloBox(RInt(a.rx[1]), RInt(a.ry[1]), RInt(a.rx[2]), RInt(a.ry[2]),
                       a.page[1], a.page[2], a.image[1], a.image[2])
    IN  [k \in 1..4 |-> clamp(box[k], RInt(0), RInt(1))]

\* C23: codec round trip: a box with class id >= 0 and cx, cy, w, h in
\* [0, 1] is formatted as 5 tokens, each float with exactly 6 decimals;
\* parsing the line back yields the class id and values within 1e-6 of the
\* originals, and formatting the parsed values again yields the same line.
C23_CodecRoundTrip ==
    (mapCalls > 0 /\ mapRes.err = "none") =>
        LET line == mapRes.line
            b == ClampedBox(mapArgs)
        IN  /\ Len(line) = 5
            /\ line[1] = IntTok(0)
            /\ ParseFloat(line[1]) = RInt(0)
            /\ \A k \in 1..4 :
                /\ line[k + 1][1] = "dec"
                /\ line[k + 1][3] = 6
                /\ RLe(RAbs(RSub(ParseFloat(line[k + 1]), b[k])), Rat(1, 1000000))
                /\ Fmt6(ParseFloat(line[k + 1])) = line[k + 1]

\* a box whose values have no finite decimal expansion, encoded
C23_Witness ==
    /\ mapCalls > 0
    /\ mapRes.err = "none"
    /\ mapArgs.rx = <<100, 200>>
    /\ mapArgs.page = <<612, 792>>
    /\ mapRes.line[2] = Dec(245098, 6)
    /\ ParseFloat(mapRes.line[2]) # ClampedBox(mapArgs)[1]

\* the arguments of the concrete mapping scenario
Scenario(a) ==
    /\ a.page = <<612, 792>>
    /\ a.image = <<1700, 2200>>
    /\ a.rx = <<100, 200>>
    /\ a.ry = <<700, 720>>

\* tok parses to a value within 1e-4 of m / 10^6
Within1e4(tok, m) ==
    /\ ~Unparseable(tok)
    /\ RLe(RAbs(RSub(ParseFloat(tok), Rat(m, 1000000))), Rat(1, 10000))

\* C24: with page size (612, 792), image size (1700, 2200) and rectangle
\* (100, 700, 200, 720), pdf_rect_to_yolo returns cx = 0.245098,
\* cy = 0.896463, w = 0.163399, h = 0.025253, each within 1e-4.
C24_ConcreteMapping ==
    (mapCalls > 0 /\ Scenario(mapArgs)) =>
        /\ mapRes.err = "none"
        /\ Len(mapRes.line) = 5
        /\ Within1e4(mapRes.line[2], 245098)
        /\ Within1e4(mapRes.line[3], 896463)
        /\ Within1e4(mapRes.line[4], 163399)
        /\ Within1e4(mapRes.line[5], 25253)

\* the scenario's call has returned "0 0.245098 0.896465 0.163399 0.025253"
C24_Witness ==
    /\ mapCalls > 0
    /\ Scenario(mapArgs)
    /\ mapRes.line = <<IntTok(0), Dec(245098, 6), Dec(896465, 6), Dec(163399, 6),
                       Dec(25253, 6)>>

\* cx = (x0+x1)/(2*pageW), cy = (y0+y1)/(2*pageH), w = |x1-x0|/pageW,
\* h = |y1-y0|/pageH
PageBox(a) ==
    << Rat(a.rx[1] + a.rx[2], 2 * a.page[1]),
       Rat(a.ry[1] + a.ry[2], 2 * a.page[2]),
       Rat(Abs(a.rx[2] - a.rx[1]), a.page[1]),
       Rat(Abs(a.ry[2] - a.ry[1]), a.page[2]) >>

\* C30: in exact arithmetic the box returned by pdf_rect_to_yolo does not
\* depend on the image size: for every positive image size it is
\* cx = (x0+x1)/(2*pageW), cy = (y0+y1)/(2*pageH), w = |x1-x0|/pageW,
\* h = |y1-y0|/pageH, each clamped to [0, 1], the page size being positive.
C30_IndependentOfImageSize ==
    (mapCalls > 0 /\ AllDimsPositive(mapArgs)) =>
        /\ mapRes.err = "none"
        /\ \A k \in 1..4 :
            /\ ClampedBox(mapArgs)[k] = clamp(PageBox(mapArgs)[k], RInt(0), RInt(1))
            /\ NearestMicro(mapRes.line[k + 1],
                            clamp(PageBox(mapArgs)[k], RInt(0), RInt(1)))

\* a rectangle mapped onto an image whose aspect ratio is not the page's
C30_Witness ==
    /\ mapCalls > 0
    /\ mapArgs.page = <<612, 792>>
    /\ mapArgs.image = <<200, 250>>
    /\ mapArgs.rx = <<100, 200>>
    /\ mapArgs.ry = <<700, 720>>
    /\ mapRes.line = <<IntTok(0), Dec(245098, 6), Dec(896465, 6), Dec(163399, 6),
                       Dec(25253, 6)>>

----------------------------------------------------------------------------
(* The box of a field inside the page, under SpecPad *)

\* pdf_rect_to_yolo has run on the rectangle of the field at hand
Mapped == padStage = "mapped"

\* the widget's rectangle lies inside the page
InsidePage ==
    LET r == padField.rect
    IN  /\ 0 <= r[1] /\ r[1] <= r[3] /\ r[3] <= PageW
        /\ 0 <= r[2] /\ r[2] <= r[4] /\ r[4] <= PageH

\* the far edges of the box: cx + w/2 and cy + h/2
FarEdgeX == RAdd(padBox[1], RDiv(padBox[3], RInt(2)))
FarEdgeY == RAdd(padBox[2], RDiv(padBox[4], RInt(2)))

\* the near edges of the box: cx - w/2 and cy - h/2
NearEdgeX == RSub(padBox[1], RDiv(padBox[3], RInt(2)))
NearEdgeY == RSub(padBox[2], RDiv(padBox[4], RInt(2)))

\* C29 as stated, on the floats of the run: for every field rectangle inside
\* the page, padded or not, the box pdf_rect_to_yolo computes lies inside
\* the unit square before formatting (cx - w/2 >= 0, cx + w/2 <= 1,
\* cy - h/2 >= 0, cy + h/2 <= 1) and none of the four clamps changes a value.
C29_BoxInsideUnitSquare ==
    (Mapped /\ InsidePage) =>
        /\ RLe(RInt(0), NearEdgeX)
        /\ RLe(RInt(0), NearEdgeY)
        /\ ~FloatGt(FarEdgeX, RInt(1))
        /\ ~FloatGt(FarEdgeY, RInt(1))
        /\ \A k \in 1..4 : RLe(RInt(0), padBox[k]) /\ ~FloatGt(padBox[k], RInt(1))

\* C29, amended: in exact arithmetic the box of a field rectangle inside the
\* page, padded or not, lies inside the unit square, no clamp changes a
\* value, and the line returned is the 6-decimal rendering of the unclamped
\* values.
C29_BoxInsideUnitSquareExact ==
    (Mapped /\ InsidePage) =>
        /\ RLe(RInt(0), NearEdgeX)
        /\ RLe(RInt(0), NearEdgeY)
        /\ RLe(FarEdgeX, RInt(1))
        /\ RLe(FarEdgeY, RInt(1))
        /\ \A k \in 1..4 :
            /\ clamp(padBox[k], RInt(0), RInt(1)) = padBox[k]
            /\ NearestMicro(padLine[k + 1], padBox[k])

\* the checkbox (602, 5)-(612, 15), padded to (592, 0)-(612, 25), has a box
\* whose edges lie on the right and the top border of the unit square
C29_Witness ==
    /\ Mapped
    /\ InsidePage
    /\ padField.class_name = "checkbox"
    /\ padField.rect = <<602, 5, 612, 15>>
    /\ padOut = <<RInt(592), RInt(0), RInt(612), RInt(25)>>
    /\ FarEdgeX = RInt(1)
    /\ NearEdgeY = RInt(0)
    /\ padLine[2] = Dec(983660, 6)

----------------------------------------------------------------------------
(* Labels and image content in resize_scan_fax, under SpecScan *)

\* |a - b| < 1
LessThanOnePixel(a, b) == RLt(RAbs(RSub(a, b)), RInt(1))

\* C25: in resize_scan_fax the label stays on its image content: for every
\* image size, every sampled scale and jitter and every box whose transformed
\* values are not clamped, the pixel position the box centre is mapped to
\* (cx*w*scale*jitter + paste offset) is less than one pixel from where the
\* image content at that centre is pasted (cx*newW + paste offset), and the
\* box's pixel width is less than one pixel from the resized content's width.
C25_LabelStaysOnContent ==
    ScanDone =>
        \A i \in 1..Len(scanArgs.lines) :
            LET parts == scanArgs.lines[i]
                w == scanArgs.size[1]
                h == scanArgs.size[2]
                pl == scanRes.image.placed
                raw == ScanRaw(parts, w, h, scanArgs.p)
            IN  (WellFormed(parts) /\ \A k \in 1..4 : ScanClamp(raw[k]) = raw[k]) =>
                    /\ LessThanOnePixel(RMul(raw[1], RInt(w)),
                            RAdd(RMul(ParseFloat(parts[2]), RInt(pl.new_w)),
                                 RInt(pl.paste_x)))
                    /\ LessThanOnePixel(RMul(raw[2], RInt(h)),
                            RAdd(RMul(ParseFloat(parts[3]), RInt(pl.new_h)),
                                 RInt(pl.paste_y)))
                    /\ LessThanOnePixel(RMul(raw[3], RInt(w)),
                            RMul(ParseFloat(parts[4]), RInt(pl.new_w)))

----------------------------------------------------------------------------
(* Order and class of the boxes through the label transforms, under Spec *)

\* the class tokens of a label file
ClassTokens(lines) == {lines[i][1] : i \in 1..Len(lines)}

\* C28: flip_horizontal and resize_scan_fax preserve order and class: the
\* class tokens they emit are a subsequence of the class tokens of the
\* 5-token input lines (never longer, never reordered, no token altered), so
\* after a sequence of augmentations every emitted class id is one of the
\* source label file.
C28_OrderAndClassPreserved ==
    AugDone =>
        /\ Len(labelLines) = Len(keptIdx)
        /\ Len(labelLines) <= Cardinality(FiveTokenIdx(inLines))
        /\ \A j \in 1..Len(keptIdx) :
            /\ keptIdx[j] \in FiveTokenIdx(inLines)
            /\ j > 1 => keptIdx[j - 1] < keptIdx[j]
            /\ labelLines[j][1] = inLines[keptIdx[j]][1]
        /\ (steps = 2 /\ op0 \in Augmentations) =>
              ClassTokens(labelLines) \subseteq ClassTokens(inLines0)

\* the second of two augmentations, a scan/fax pass, culled a box and kept
\* one whose class id is not 0
C28_Witness ==
    /\ AugDone
    /\ steps = 2
    /\ op0 \in Augmentations
    /\ op = "scanfax"
    /\ Len(labelLines) >= 1
    /\ Len(labelLines) < Cardinality(FiveTokenIdx(inLines))
    /\ \E j \in 1..Len(labelLines) : labelLines[j][1] # IntTok(0)

----------------------------------------------------------------------------
(* Properties of the augment main loop, under SpecAug *)

Photometric == {"bright", "contrast", "noise", "watermark"}

Suffixes == {"flip", "scanfax"} \cup Photometric

\* the positions of the labeled frames
LabeledIdx == {i \in 1..Len(frames) : frames[i].labeled}

\* the non-blank lines of frame i's label file, in order
RECURSIVE NonBlankFrom(_, _)
NonBlankFrom(file, i) ==
    IF i > Len(file) THEN <<>>
    ELSE IF file[i] = <<>> THEN NonBlankFrom(file, i + 1)
    ELSE <<file[i]>> \o NonBlankFrom(file, i + 1)

\* C26: for brightness, contrast, noise and watermark the label file main
\* writes is the source frame's sequence of non-blank label lines, in order
\* and verbatim, lines that flip_horizontal and resize_scan_fax skip as
\* malformed included.
C26_PhotometricLabelsVerbatim ==
    \A k \in 1..Len(written) :
        written[k].suffix \in Photometric =>
            written[k].labels = NonBlankFrom(frames[written[k].frame].file, 1)

\* the noise pair of a frame whose file holds a box, a blank line and a
\* 3-token line: the box and the 3-token line were written
C26_Witness ==
    \E k \in 1..Len(written) :
        /\ written[k].suffix = "noise"
        /\ Len(frames[written[k].frame].file) = 3
        /\ Len(written[k].labels) = 2
        /\ written[k].labels[2] = <<IntTok(1), IntTok(2), IntTok(3)>>

\* a label file holds a 5-token line with a token that is no number
HasUnparseable(file) == \E i \in 1..Len(file) : Len(file[i]) = 5 /\ LineRaises(file[i])

====
